---------------------------- MODULE Spec2Model ----------------------------
(***************************************************************************)
(* A model of the notebook 2-mean-absolute-deviation.ipynb: the mixture    *)
(* sampler two_norms, the dispersion estimators mad and scipy.stats.tstd,  *)
(* get_efficiency, and the Monte Carlo estimator get_efficiency_sample.    *)
(*                                                                         *)
(* Numbers.  A numpy float is modelled as a record [n, d]: the exact       *)
(* rational n/d when d > 0, and with d = 0 the IEEE specials numpy         *)
(* produces instead of raising: 0/0 is NaN, 1/0 is +inf, -1/0 is -inf.     *)
(* Arithmetic is exact except the square root, which is rounded down to a  *)
(* multiple of 1/SqrtScale.                                                *)
(*                                                                         *)
(* Randomness.  The library calls draw from numpy's global generator,      *)
(* whose stream is fixed by its seed.  The seed is an input: the seeds     *)
(* 0..MaxSeed stand for the streams of bits that repeat with period        *)
(* SeedBits.  A standard normal draw is a z-score from StdNormal, given by *)
(* one bit; an indicator draw is a uniform bit that binom.rvs turns into 0 *)
(* or 1.  Probabilities in (0,1) are modelled by their support only.  The  *)
(* probability p is kept in hundredths.                                    *)
(***************************************************************************)
EXTENDS Integers, Sequences, FiniteSets, TLC

VARIABLES
    pc,               \* the statement get_efficiency_sample executes next
    a, p,             \* its two parameters (p in hundredths)
    num_samples,      \* samples per set
    sample_set,       \* the comprehension's loop counter (sets drawn so far)
    sets_of_samples,  \* the list of batches
    stds, mads,       \* the two dispersion arrays (<<>> while unassigned)
    std_efficiency,   \* <<>> while unassigned, else <<value>>
    mad_efficiency,   \* <<>> while unassigned, else <<value>>
    result,           \* <<>> until the call returns, else <<value>>
    seed, pos,        \* the global generator: its seed and its position
    outputs,          \* the values returned by the calls made so far
    fn, arg, out,     \* one call of a pure function: its name, input, output
    efficiencies,     \* the sweep's list of collected relative efficiencies
    calls             \* the arguments of the calls the sweep made so far

vars == <<pc, a, p, num_samples, sample_set, sets_of_samples, stds, mads,
          std_efficiency, mad_efficiency, result, seed, pos, outputs,
          fn, arg, out, efficiencies, calls>>

progVars == <<pc, a, p, num_samples, sample_set, sets_of_samples, stds, mads,
              std_efficiency, mad_efficiency, result>>
rngVars == <<seed, pos, outputs>>
fnVars == <<fn, arg, out>>
sweepVars == <<efficiencies, calls>>

---------------------------------------------------------------------------
(* Bounds *)

\* samples per set: the model takes num_samples in 1..MaxSamples
MaxSamples == 3
\* sets of samples per call (10_000 in the notebook)
num_sets_of_samples == 2
\* the largest inflation value a the model calls with
MaxA == 1
\* the square root is rounded down to a multiple of 1/SqrtScale
SqrtScale == 10
\* seeds of the generator are 0..MaxSeed
MaxSeed == 255
\* the stream of a seed repeats its first SeedBits draws
SeedBits == 8
\* the longest array handed to a pure function on its own
MaxLen == 3

---------------------------------------------------------------------------
(* numpy float arithmetic *)

AbsInt(x) == IF x < 0 THEN -x ELSE x

SignInt(x) == IF x < 0 THEN -1 ELSE IF x > 0 THEN 1 ELSE 0

RECURSIVE GCD(_, _)
GCD(x, y) == IF y = 0 THEN x ELSE GCD(y, x % y)

\* the float n/d, d >= 0, in lowest terms
Float(n, d) ==
    IF d = 0 THEN [n |-> SignInt(n), d |-> 0]
    ELSE LET g == GCD(AbsInt(n), d) IN [n |-> n \div g, d |-> d \div g]

FromInt(k) == [n |-> k, d |-> 1]

NaN == [n |-> 0, d |-> 0]

Inf == [n |-> 1, d |-> 0]

IsNaN(x) == x.d = 0 /\ x.n = 0

IsFinite(x) == x.d > 0

\* x + y
FAdd(x, y) ==
    IF IsNaN(x) \/ IsNaN(y) THEN NaN
    ELSE IF x.d = 0 /\ y.d = 0 THEN (IF x.n = y.n THEN x ELSE NaN)
    ELSE IF x.d = 0 THEN x
    ELSE IF y.d = 0 THEN y
    ELSE LET g == GCD(x.d, y.d)
         IN Float(x.n * (y.d \div g) + y.n * (x.d \div g), (x.d \div g) * y.d)

FNeg(x) == [n |-> -x.n, d |-> x.d]

\* x - y
FSub(x, y) == FAdd(x, FNeg(y))

\* x * y
FMul(x, y) ==
    IF IsNaN(x) \/ IsNaN(y) THEN NaN
    ELSE IF x.d = 0 \/ y.d = 0 THEN Float(SignInt(x.n) * SignInt(y.n), 0)
    ELSE LET g1 == GCD(AbsInt(x.n), y.d)
             g2 == GCD(AbsInt(y.n), x.d)
         IN Float((x.n \div g1) * (y.n \div g2), (x.d \div g2) * (y.d \div g1))

\* x / y: numpy floats do not raise on a zero divisor, they give inf or nan
FDiv(x, y) ==
    IF IsNaN(x) \/ IsNaN(y) THEN NaN
    ELSE IF y.d = 0 THEN (IF x.d = 0 THEN NaN ELSE FromInt(0))
    ELSE IF y.n = 0 THEN Float(SignInt(x.n), 0)
    ELSE IF x.d = 0 THEN Float(x.n * SignInt(y.n), 0)
    ELSE LET g1 == GCD(AbsInt(x.n), AbsInt(y.n))
             g2 == GCD(x.d, y.d)
         IN Float(SignInt(y.n) * (x.n \div g1) * (y.d \div g2),
                  (x.d \div g2) * (AbsInt(y.n) \div g1))

\* |x|
FAbs(x) == [n |-> AbsInt(x.n), d |-> x.d]

RECURSIVE ISqrtFrom(_, _)
ISqrtFrom(x, r) == IF (r + 1) * (r + 1) > x THEN r ELSE ISqrtFrom(x, r + 1)

\* the largest r with r * r <= x
ISqrt(x) == ISqrtFrom(x, 0)

\* sqrt(x), rounded down to a multiple of 1/SqrtScale; nan below zero
FSqrt(x) ==
    IF IsNaN(x) \/ x.n < 0 THEN NaN
    ELSE IF x.d = 0 THEN Inf
    ELSE Float(ISqrt(x.n * x.d * SqrtScale * SqrtScale), x.d * SqrtScale)

RECURSIVE FSum(_)
FSum(data) ==
    IF data = <<>> THEN FromInt(0) ELSE FAdd(Head(data), FSum(Tail(data)))

\* np.mean: nan (and a warning, no exception) for an empty array
np_mean(data) == FDiv(FSum(data), FromInt(Len(data)))

\* np.var: the mean of the squared deviations from the mean (ddof = 0)
np_var(data) ==
    LET m == np_mean(data)
        sq == [k \in 1..Len(data) |->
                  FMul(FSub(data[k], m), FSub(data[k], m))]
    IN np_mean(sq)

\* scipy.stats.tstd without limits: sqrt of the variance with ddof = 1
tstd(data) ==
    LET m == np_mean(data)
        sq == [k \in 1..Len(data) |->
                  FMul(FSub(data[k], m), FSub(data[k], m))]
    IN FSqrt(FDiv(FSum(sq), FromInt(Len(data) - 1)))

---------------------------------------------------------------------------
(* The notebook's functions *)

\* a variant that takes the deviations from zero, not from the mean
mad_about_zero(data) ==
    LET absolute_deviations == [k \in 1..Len(data) |-> FAbs(data[k])]
    IN np_mean(absolute_deviations)

\* a variant that averages the signed deviations, without np.abs
mad_signed(data) ==
    LET mean == np_mean(data)
        deviations == [k \in 1..Len(data) |-> FSub(data[k], mean)]
    IN np_mean(deviations)

mad(data) ==
    LET mean == np_mean(data)
        absolute_deviations ==
            [k \in 1..Len(data) |-> FAbs(FSub(data[k], mean))]
    IN np_mean(absolute_deviations)

\* a variant that normalises by the mean, not by its square
get_efficiency_by_mean(data) == FDiv(np_var(data), np_mean(data))

\* a variant that normalises by the first entry instead of the mean
get_efficiency_by_first(data) ==
    FDiv(np_var(data), FMul(data[1], data[1]))

get_efficiency(data) ==
    FDiv(np_var(data), FMul(np_mean(data), np_mean(data)))

\* the z-scores a standard normal draw is taken from
StdNormal == {0, 1}

\* the uniform bits an indicator draw is taken from
UniformBit == {0, 1}

\* scipy.stats.norm.rvs(loc, scale, size) on the standard draws zs;
\* a negative scale is a domain error (ValueError)
norm_rvs_ok(scale) == scale >= 0

norm_rvs(loc, scale, zs) == [k \in 1..Len(zs) |-> loc + scale * zs[k]]

\* scipy.stats.binom.rvs(n=1, p=q, size) on the uniform bits us, q in
\* hundredths; q outside [0,1] is a domain error (ValueError)
binom_rvs_ok(q) == q >= 0 /\ q <= 100

binom_rvs(q, us) ==
    [k \in 1..Len(us) |->
        IF q = 0 THEN 0 ELSE IF q = 100 THEN 1 ELSE us[k]]

\* a variant that hands p itself to binom.rvs
indicator_p_unflipped(p_) == p_

\* the success probability handed to binom.rvs: 1 - p, in hundredths
indicator_p(p_) == 100 - p_

\* the locals of two_norms after it ran on the library's draws zn, zs, us;
\* ok is FALSE when a library call raised
two_norms_locals(n, a_, p_, zn, zs, us) ==
    LET mean == 0
        sigma_norm == 1
        sigma_spike == 1 + a_
        X_norm == norm_rvs(mean, sigma_norm, zn)
        X_spike == norm_rvs(mean, sigma_spike, zs)
        i == binom_rvs(indicator_p(p_), us)
        X == [k \in 1..n |-> i[k] * X_norm[k] + (1 - i[k]) * X_spike[k]]
    IN IF ~norm_rvs_ok(sigma_spike) \/ ~binom_rvs_ok(indicator_p(p_))
       THEN [ok |-> FALSE, sigma_norm |-> sigma_norm,
             sigma_spike |-> sigma_spike,
             X_norm |-> <<>>, X_spike |-> <<>>, i |-> <<>>, X |-> <<>>]
       ELSE [ok |-> TRUE, sigma_norm |-> sigma_norm,
             sigma_spike |-> sigma_spike,
             X_norm |-> X_norm, X_spike |-> X_spike, i |-> i, X |-> X]

ToFloats(xs) == [k \in 1..Len(xs) |-> FromInt(xs[k])]

---------------------------------------------------------------------------
(* get_efficiency_sample, one statement at a time *)

AValues == (-2)..MaxA

PValues == {-1, 0, 1, 100, 101}

Draws(n, S) == [1..n -> S]

Init ==
    /\ pc = "sample"
    /\ a \in AValues
    /\ p \in PValues
    /\ num_samples \in 1..MaxSamples
    /\ sample_set = 0
    /\ sets_of_samples = <<>>
    /\ stds = <<>>
    /\ mads = <<>>
    /\ std_efficiency = <<>>
    /\ mad_efficiency = <<>>
    /\ result = <<>>
    /\ seed \in 0..MaxSeed
    /\ pos = 0
    /\ outputs = <<>>
    /\ fn = "none"
    /\ arg = <<>>
    /\ out = <<>>
    /\ efficiencies = <<>>
    /\ calls = <<>>

\* draw k (from 0) of the stream the generator produces from seed sd
StreamAt(sd, k) == (sd \div (2 ^ (k % SeedBits))) % 2

\* the n draws the generator hands out from position k on
Stream(sd, k, n) == [j \in 1..n |-> StreamAt(sd, k + j - 1)]

\* one iteration of the comprehension that draws the sets of samples
SampleWith(zn, zs, us) ==
    LET r == two_norms_locals(num_samples, a, p, zn, zs, us)
    IN IF r.ok
       THEN /\ sets_of_samples' = Append(sets_of_samples, ToFloats(r.X))
            /\ sample_set' = sample_set + 1
            /\ pc' = IF sample_set + 1 = num_sets_of_samples
                     THEN "stds" ELSE "sample"
       ELSE /\ pc' = "error"
            /\ UNCHANGED <<sets_of_samples, sample_set>>

\* a variant whose library calls draw from a generator that every call
\* seeds anew, not from the seeded global one
SamplePrivateGenerator ==
    /\ pc = "sample"
    /\ sample_set < num_sets_of_samples
    /\ SampleWith(Stream(seed + Len(outputs) + 1, pos, num_samples),
                  Stream(seed + Len(outputs) + 1, pos + num_samples,
                         num_samples),
                  Stream(seed + Len(outputs) + 1, pos + 2 * num_samples,
                         num_samples))
    /\ pos' = pos + 3 * num_samples
    /\ UNCHANGED <<a, p, num_samples, stds, mads, std_efficiency,
                   mad_efficiency, result, seed, outputs, fnVars, sweepVars>>

\* two_norms is called once more: its three library calls consume the
\* generator in the order of lines 101, 102, 104
Sample ==
    /\ pc = "sample"
    /\ sample_set < num_sets_of_samples
    /\ SampleWith(Stream(seed, pos, num_samples),
                  Stream(seed, pos + num_samples, num_samples),
                  Stream(seed, pos + 2 * num_samples, num_samples))
    /\ pos' = pos + 3 * num_samples
    /\ UNCHANGED <<a, p, num_samples, stds, mads, std_efficiency,
                   mad_efficiency, result, seed, outputs, fnVars, sweepVars>>

\* a variant that walks the sets from the last to the first
StdsOfReversed(sets) ==
    [k \in 1..Len(sets) |-> tstd(sets[Len(sets) + 1 - k])]

StdsOf(sets) == [k \in 1..Len(sets) |-> tstd(sets[k])]

\* a variant that skips the first set
MadsOfTail(sets) == [k \in 1..(Len(sets) - 1) |-> mad(sets[k + 1])]

MadsOf(sets) == [k \in 1..Len(sets) |-> mad(sets[k])]

ComputeStds ==
    /\ pc = "stds"
    /\ stds' = StdsOf(sets_of_samples)
    /\ pc' = "mads"
    /\ UNCHANGED <<a, p, num_samples, sample_set, sets_of_samples, mads,
                   std_efficiency, mad_efficiency, result, rngVars, fnVars,
                   sweepVars>>

ComputeMads ==
    /\ pc = "mads"
    /\ mads' = MadsOf(sets_of_samples)
    /\ pc' = "std_efficiency"
    /\ UNCHANGED <<a, p, num_samples, sample_set, sets_of_samples, stds,
                   std_efficiency, mad_efficiency, result, rngVars, fnVars,
                   sweepVars>>

StdEfficiency ==
    /\ pc = "std_efficiency"
    /\ std_efficiency' = <<get_efficiency(stds)>>
    /\ pc' = "mad_efficiency"
    /\ UNCHANGED <<a, p, num_samples, sample_set, sets_of_samples, stds, mads,
                   mad_efficiency, result, rngVars, fnVars, sweepVars>>

MadEfficiency ==
    /\ pc = "mad_efficiency"
    /\ mad_efficiency' = <<get_efficiency(mads)>>
    /\ pc' = "return"
    /\ UNCHANGED <<a, p, num_samples, sample_set, sets_of_samples, stds, mads,
                   std_efficiency, result, rngVars, fnVars, sweepVars>>

\* a variant with the MAD array's efficiency in the numerator
ReturnValueSwapped(std_eff, mad_eff) == FDiv(mad_eff, std_eff)

ReturnValue(std_eff, mad_eff) == FDiv(std_eff, mad_eff)

Return ==
    /\ pc = "return"
    /\ result' = <<ReturnValue(std_efficiency[1], mad_efficiency[1])>>
    /\ pc' = "done"
    /\ UNCHANGED <<a, p, num_samples, sample_set, sets_of_samples, stds, mads,
                   std_efficiency, mad_efficiency, rngVars, fnVars, sweepVars>>

Next ==
    \/ Sample
    \/ ComputeStds
    \/ ComputeMads
    \/ StdEfficiency
    \/ MadEfficiency
    \/ Return

Spec == Init /\ [][Next]_vars

---------------------------------------------------------------------------
(* Two calls with the same parameters, each started from the same seed *)

\* how the call ended: it raised, or it returned a value
Outcome == IF pc = "error" THEN [raised |-> TRUE, value |-> NaN]
           ELSE [raised |-> FALSE, value |-> result[1]]

\* the caller keeps the first call's outcome, reseeds the generator and
\* calls again with the same arguments; the callee's locals are new
CallAgain ==
    /\ pc \in {"done", "error"}
    /\ outputs = <<>>
    /\ outputs' = <<Outcome>>
    /\ pos' = 0
    /\ pc' = "sample"
    /\ sample_set' = 0
    /\ sets_of_samples' = <<>>
    /\ stds' = <<>>
    /\ mads' = <<>>
    /\ std_efficiency' = <<>>
    /\ mad_efficiency' = <<>>
    /\ result' = <<>>
    /\ UNCHANGED <<a, p, num_samples, seed, fnVars, sweepVars>>

NextSeed ==
    \/ Sample
    \/ ComputeStds
    \/ ComputeMads
    \/ StdEfficiency
    \/ MadEfficiency
    \/ Return
    \/ CallAgain

SpecSeed == Init /\ [][NextSeed]_vars

---------------------------------------------------------------------------
(* The parameter sweep of the last cell *)

\* range(0, 21) stops before SweepStop
SweepStop == 21

\* the list a of inflation values: a = [ _ for _ in range(0,21) ]
SweepA == [k \in 1..SweepStop |-> k - 1]

\* p = 0.01, in hundredths
SweepP == 1

\* samples per set in the sweep (1_000 in the notebook): with a up to 20
\* the exact fractions of larger sets no longer fit 32-bit integers
SweepSampleCounts == {1, 2, 3}

InitSweep ==
    /\ pc = "sweep"
    /\ a = 0
    /\ p = 0
    /\ num_samples \in SweepSampleCounts
    /\ sample_set = 0
    /\ sets_of_samples = <<>>
    /\ stds = <<>>
    /\ mads = <<>>
    /\ std_efficiency = <<>>
    /\ mad_efficiency = <<>>
    /\ result = <<>>
    /\ seed \in 0..MaxSeed
    /\ pos = 0
    /\ outputs = <<>>
    /\ fn = "none"
    /\ arg = <<>>
    /\ out = <<>>
    /\ efficiencies = <<>>
    /\ calls = <<>>

\* a variant that walks the list a from its last entry to its first
NextInflationBackwards(collected) == SweepA[Len(SweepA) - Len(collected)]

\* the entry a_ of a the comprehension binds next, given the list so far
NextInflation(collected) == SweepA[Len(collected) + 1]

\* the comprehension binds the next a_ and calls get_efficiency_sample(a_, p)
SweepCall ==
    /\ pc = "sweep"
    /\ Len(efficiencies) < Len(SweepA)
    /\ a' = NextInflation(efficiencies)
    /\ p' = SweepP
    /\ calls' = Append(calls, <<a', p'>>)
    /\ sample_set' = 0
    /\ sets_of_samples' = <<>>
    /\ stds' = <<>>
    /\ mads' = <<>>
    /\ std_efficiency' = <<>>
    /\ mad_efficiency' = <<>>
    /\ result' = <<>>
    /\ pc' = "sample"
    /\ UNCHANGED <<num_samples, rngVars, fnVars, efficiencies>>

\* the call returned: its value becomes the next element of efficiencies
SweepCollect ==
    /\ pc = "done"
    /\ efficiencies' = Append(efficiencies, result[1])
    /\ pc' = "sweep"
    /\ UNCHANGED <<a, p, num_samples, sample_set, sets_of_samples, stds, mads,
                   std_efficiency, mad_efficiency, result, rngVars, fnVars,
                   calls>>

\* the list a is exhausted: efficiencies is complete and handed to plt.plot
Plot ==
    /\ pc = "sweep"
    /\ Len(efficiencies) = Len(SweepA)
    /\ pc' = "plot"
    /\ UNCHANGED <<a, p, num_samples, sample_set, sets_of_samples, stds, mads,
                   std_efficiency, mad_efficiency, result, rngVars, fnVars,
                   sweepVars>>

NextSweep ==
    \/ SweepCall
    \/ Sample
    \/ ComputeStds
    \/ ComputeMads
    \/ StdEfficiency
    \/ MadEfficiency
    \/ Return
    \/ SweepCollect
    \/ Plot

SpecSweep == InitSweep /\ [][NextSweep]_vars

---------------------------------------------------------------------------
(* One call of a function of the notebook on its own *)

\* the entries of the arrays handed to a function
DataValues == {-1, 0, 1, 2}

DataArrays == UNION {[1..n -> {FromInt(v) : v \in DataValues}] : n \in 0..MaxLen}

InitFn ==
    /\ pc = "idle"
    /\ a = 0
    /\ p = 0
    /\ num_samples = 0
    /\ sample_set = 0
    /\ sets_of_samples = <<>>
    /\ stds = <<>>
    /\ mads = <<>>
    /\ std_efficiency = <<>>
    /\ mad_efficiency = <<>>
    /\ result = <<>>
    /\ seed = 0
    /\ pos = 0
    /\ outputs = <<>>
    /\ fn = "none"
    /\ arg = <<>>
    /\ out = <<>>
    /\ efficiencies = <<>>
    /\ calls = <<>>

\* a function that returned v (none of mad, tstd, get_efficiency raises)
Returned(v) == [raised |-> FALSE, value |-> v]

CallMad ==
    /\ fn = "none"
    /\ \E data \in DataArrays :
          /\ fn' = "mad"
          /\ arg' = data
          /\ out' = Returned(mad(data))
    /\ UNCHANGED <<progVars, rngVars, sweepVars>>

CallTstd ==
    /\ fn = "none"
    /\ \E data \in DataArrays :
          /\ fn' = "tstd"
          /\ arg' = data
          /\ out' = Returned(tstd(data))
    /\ UNCHANGED <<progVars, rngVars, sweepVars>>

CallGetEfficiency ==
    /\ fn = "none"
    /\ \E data \in DataArrays :
          /\ fn' = "get_efficiency"
          /\ arg' = data
          /\ out' = Returned(get_efficiency(data))
    /\ UNCHANGED <<progVars, rngVars, sweepVars>>

CallTwoNorms ==
    /\ fn = "none"
    /\ \E n \in 0..MaxSamples, a_ \in AValues, p_ \in PValues :
          \E zn \in Draws(n, StdNormal), zs \in Draws(n, StdNormal),
             us \in Draws(n, UniformBit) :
             LET r == two_norms_locals(n, a_, p_, zn, zs, us)
             IN /\ fn' = "two_norms"
                /\ arg' = <<n, a_, p_>>
                /\ out' = [raised |-> ~r.ok, value |-> r]
    /\ UNCHANGED <<progVars, rngVars, sweepVars>>

NextFn ==
    \/ CallMad
    \/ CallTstd
    \/ CallGetEfficiency
    \/ CallTwoNorms

SpecFn == InitFn /\ [][NextFn]_vars

---------------------------------------------------------------------------
(* Properties *)

\* mean and variance stated on their own: the sum over the count, and the
\* mean of the squares less the square of the mean
MeanOf(data) == FDiv(FSum(data), FromInt(Len(data)))

VarianceOf(data) ==
    LET squares == [k \in 1..Len(data) |-> FMul(data[k], data[k])]
    IN FSub(FDiv(FSum(squares), FromInt(Len(data))),
            FMul(MeanOf(data), MeanOf(data)))

\* C1: for every a >= 0 two_norms hands the normal sampler a spike scale
\* whose square is 1 + a (standard deviation sqrt(1 + a)), and scale 1 for
\* the other component.
C1_SpikeScaleIsSqrtOnePlusA ==
    (fn = "two_norms" /\ arg[2] >= 0 /\ ~out.raised) =>
        /\ out.value.sigma_spike * out.value.sigma_spike = 1 + arg[2]
        /\ out.value.sigma_norm = 1

\* e is variance(data) / mean(data)^2 and is not negative, whenever the
\* mean is a nonzero number
IsVarOverMeanSq(e, data) ==
    LET m == MeanOf(data)
    IN (IsFinite(m) /\ m.n # 0) =>
          /\ IsFinite(e)
          /\ FMul(e, FMul(m, m)) = VarianceOf(data)
          /\ e.n >= 0

\* r is x / y, whenever both are numbers and y is not zero
IsQuotient(r, x, y) ==
    (IsFinite(x) /\ IsFinite(y) /\ y.n # 0) =>
        (IsFinite(r) /\ FMul(r, y) = x)

C3_TwoNormsSelects ==
    (fn = "two_norms" /\ ~out.raised) =>
        LET r == out.value
        IN /\ Len(r.X) = arg[1]
           /\ \A k \in 1..arg[1] :
                 /\ r.i[k] \in {0, 1}
                 /\ r.X_norm[k] \in StdNormal
                 /\ r.X[k] = IF r.i[k] = 1 THEN r.X_norm[k] ELSE r.X_spike[k]
                 /\ arg[3] = 0 => r.X[k] = r.X_norm[k]
                 /\ arg[3] = 100 => r.X[k] = r.X_spike[k]

C3_Witness ==
    /\ fn = "two_norms"
    /\ arg = <<2, 1, 1>>
    /\ ~out.raised
    /\ out.value.i = <<1, 0>>
    /\ out.value.X_norm = <<1, 1>>
    /\ out.value.X_spike = <<2, 2>>
    /\ out.value.X = <<1, 2>>

\* C4: wherever the dispersion arrays are reduced, the MAD array and the
\* STD array both have length num_sets_of_samples, one entry per set drawn.
C4_EqualLengths ==
    pc \in {"std_efficiency", "mad_efficiency", "return", "done"} =>
        /\ Len(stds) = num_sets_of_samples
        /\ Len(mads) = num_sets_of_samples
        /\ Len(sets_of_samples) = num_sets_of_samples
        /\ sample_set = num_sets_of_samples

C4_Witness ==
    /\ pc = "std_efficiency"
    /\ a = 1
    /\ p = 1
    /\ Len(stds) = num_sets_of_samples
    /\ Len(mads) = num_sets_of_samples

InvalidParameter ==
    p < 0 \/ p > 100 \/ a < 0 \/ num_samples < 1 \/ num_sets_of_samples < 1

\* C5: a call with an invalid parameter fails before any estimate is
\* produced: it draws no set and never returns a value.
C5_InvalidParameterFailsFast ==
    InvalidParameter =>
        /\ pc \in {"sample", "error"}
        /\ sets_of_samples = <<>>
        /\ result = <<>>

\* C6: mad and tstd raise an error on an empty batch, and on no other.
C6_EmptyBatchRaises ==
    fn \in {"mad", "tstd"} => (out.raised <=> arg = <<>>)

\* C7: with num_samples = 1 every MAD is 0, the MAD array has mean 0, its
\* efficiency is the undefined 0/0, and the call never returns a finite
\* relative efficiency.
C7_SingleSampleNeverFinite ==
    num_samples = 1 =>
        /\ \A k \in 1..Len(mads) : mads[k] = FromInt(0)
        /\ mad_efficiency # <<>> =>
              (MeanOf(mads) = FromInt(0) /\ IsNaN(mad_efficiency[1]))
        /\ result # <<>> => ~IsFinite(result[1])

C7_Witness ==
    /\ num_samples = 1
    /\ pc = "done"
    /\ Len(mads) = num_sets_of_samples
    /\ IsNaN(result[1])
    /\ sets_of_samples[1] # sets_of_samples[2]

Permuted(sets, perm) == [k \in 1..Len(sets) |-> sets[perm[k]]]

\* the relative efficiency of a list of sets
EstimateOf(sets) ==
    ReturnValue(get_efficiency(StdsOf(sets)), get_efficiency(MadsOf(sets)))

RECURSIVE SumInt(_)
SumInt(xs) == IF xs = <<>> THEN 0 ELSE Head(xs) + SumInt(Tail(xs))

\* (1/n) * sum of |x_k - mean| for integer entries, stated in integers:
\* with S the sum of the entries it is (sum of |n * x_k - S|) / n^2
MeanAbsDeviationOf(data) ==
    LET n == Len(data)
        S == SumInt([k \in 1..n |-> data[k].n])
    IN Float(SumInt([k \in 1..n |-> AbsInt(n * data[k].n - S)]), n * n)

\* x is a number (or +inf) that is not below zero; nan is not
NotNegative(x) == ~IsNaN(x) /\ x.n >= 0

BatchAt(base, j, n, a_, p_) ==
    LET at == base + 3 * n * (j - 1)
    IN ToFloats(two_norms_locals(n, a_, p_,
                                 Stream(seed, at, n),
                                 Stream(seed, at + n, n),
                                 Stream(seed, at + 2 * n, n)).X)

\* what the k-th call of the sweep computes: the estimate for a = k - 1 and
\* p = 0.01 on the sets the generator hands out to that call
SweepEstimate(k) ==
    LET base == 3 * num_samples * num_sets_of_samples * (k - 1)
    IN EstimateOf([j \in 1..num_sets_of_samples |->
                      BatchAt(base, j, num_samples, k - 1, 1)])

\* C13: the sweep calls get_efficiency_sample once per inflation value, in
\* increasing order a = 0, 1, ..., 20, always with p = 0.01, and collects
\* exactly 21 scalars, the k-th being the efficiency computed for a = k - 1
\* (counting from 1), so that the plotted pairs are (a, efficiency for a).
C13_SweepInOrder ==
    /\ Len(calls) <= 21
    /\ \A k \in 1..Len(calls) : calls[k] = <<k - 1, 1>>
    /\ Len(efficiencies) <= Len(calls)
    /\ Len(calls) <= Len(efficiencies) + 1
    /\ (pc = "sweep" /\ efficiencies # <<>>) =>
          efficiencies[Len(efficiencies)] = SweepEstimate(Len(efficiencies))
    /\ pc = "plot" =>
          /\ Len(calls) = 21
          /\ Len(efficiencies) = 21
          /\ \A k \in 1..21 : efficiencies[k] = SweepEstimate(k)

C13_Witness ==
    /\ pc = "plot"
    /\ Len(efficiencies) = 21
    /\ IsFinite(efficiencies[1])
    /\ IsFinite(efficiencies[21])
    /\ efficiencies[1] # efficiencies[21]
    /\ efficiencies[1] # efficiencies[2]


\* C14: in one call two_norms is invoked exactly num_sets_of_samples times
\* (each invocation takes three draws of num_samples from the generator),
\* all the batches are drawn before any dispersion is computed, batch k
\* stays the k-th batch drawn, and stds[k] and mads[k] are both computed
\* from that stored batch k.
C14_BatchesDrawnOnceThenReduced ==
    pc # "error" =>
        /\ sample_set <= num_sets_of_samples
        /\ pos = 3 * num_samples * sample_set
        /\ Len(sets_of_samples) = sample_set
        /\ pc = "sample" => (stds = <<>> /\ mads = <<>>)
        /\ pc # "sample" => sample_set = num_sets_of_samples
        /\ \A k \in 1..Len(sets_of_samples) :
              sets_of_samples[k] = BatchAt(0, k, num_samples, a, p)
        /\ stds # <<>> =>
              /\ Len(stds) = num_sets_of_samples
              /\ \A k \in 1..Len(stds) : stds[k] = tstd(sets_of_samples[k])
        /\ mads # <<>> =>
              /\ Len(mads) = num_sets_of_samples
              /\ \A k \in 1..Len(mads) : mads[k] = mad(sets_of_samples[k])

C14_Witness ==
    /\ pc = "done"
    /\ sample_set = num_sets_of_samples
    /\ pos = 3 * num_samples * num_sets_of_samples
    /\ sets_of_samples[1] # sets_of_samples[2]
    /\ IsFinite(stds[1])
    /\ stds[1] # stds[2]
    /\ mads[1] # mads[2]

=============================================================================
